---- MODULE Spec2Model ----
(***************************************************************************)
(* Model of tools/codegen/dest/lazy_ir.py: the generator of lazy-tensor IR *)
(* node classes, dispatch functions and shape-inference declarations, and  *)
(* of the shape-cache sequence that the emitted dispatch function runs.    *)
(*                                                                         *)
(* Emitted C++ text is modelled as structure: an expression is a sequence  *)
(* of string tokens, a statement is a record, a function body a sequence   *)
(* of statements.  Identifiers are the real strings ("lazy_self").         *)
(***************************************************************************)
EXTENDS Integers, Sequences, FiniteSets, TLC

VARIABLES
    op,          \* the NativeFunction handed to the generators
    nodeClass,   \* LazyIR(...)(f)
    dispatch,    \* GenLazyNativeFuncDefinition(...)(f)
    shapeDecl,   \* GenLazyShapeInferenceDefinition(...)(f)
    built,       \* last results of the two expression builders
    shape_cache, \* the runtime's entry for this call's dag_hash
    procs,       \* executions of the emitted dispatch function
    adds         \* number of shape_cache->Add calls performed

vars == <<op, nodeClass, dispatch, shapeDecl, built, shape_cache, procs, adds>>

(***************************************************************************)
(* Bounds                                                                  *)
(***************************************************************************)
MaxArgs == 2
MaxReturns == 2
NumProcs == 2

(***************************************************************************)
(* Schema view: typed arguments                                            *)
(***************************************************************************)
valueT == "valueT"
scalarT == "int64_t"

\* A CType: the chain of type constructors, outermost first, and the C++
\* type at its leaf.
CType(ctors, base) == [ctors |-> ctors, base |-> base]

IsBaseCType(t) == Head(t.ctors) = "BaseCType"
IsOptionalCType(t) == Head(t.ctors) = "OptionalCType"
IsVectorCType(t) == Head(t.ctors) = "VectorCType"
Elem(t) == CType(Tail(t.ctors), t.base)

RECURSIVE isValueType(_)
isValueType(t) ==
    IF IsBaseCType(t) THEN t.base = valueT
    ELSE IF Head(t.ctors) \in {"OptionalCType", "ListCType", "VectorCType"}
    THEN isValueType(Elem(t))
    ELSE FALSE

NamedCType(name, type) == [name |-> name, type |-> type]

\* Argument kinds a schema can hold: Tensor, Tensor?, Tensor[], Scalar and
\* Scalar? (promoted to IR values), int, int?, int[], int[]?.
ArgKinds ==
    { [type |-> CType(<<"BaseCType">>, valueT), wrapped |-> FALSE],
      [type |-> CType(<<"OptionalCType", "BaseCType">>, valueT), wrapped |-> FALSE],
      [type |-> CType(<<"VectorCType", "BaseCType">>, valueT), wrapped |-> FALSE],
      [type |-> CType(<<"BaseCType">>, valueT), wrapped |-> TRUE],
      [type |-> CType(<<"OptionalCType", "BaseCType">>, valueT), wrapped |-> TRUE],
      [type |-> CType(<<"BaseCType">>, scalarT), wrapped |-> FALSE],
      [type |-> CType(<<"OptionalCType", "BaseCType">>, scalarT), wrapped |-> FALSE],
      [type |-> CType(<<"VectorCType", "BaseCType">>, scalarT), wrapped |-> FALSE],
      [type |-> CType(<<"OptionalCType", "VectorCType", "BaseCType">>, scalarT),
       wrapped |-> FALSE] }

\* Argument names, by position.
ArgNames == <<"self", "other", "alpha", "beta", "gamma">>

BaseNames == {"add", "sigmoid_backward"}

\* LazyIrSchema(func): the attributes the generators read.
aten_name(schema) ==
    IF schema.name.inplace THEN schema.name.base \o "_" ELSE schema.name.base
base_name(schema) == schema.name.base
node_name(schema) == "ir::ops::" \o aten_name(schema)
returns_length(schema) == Len(schema.returns)

filtered_types(schema, values, scalars) ==
    LET IsV(a) == isValueType(a.type)
        IsS(a) == ~isValueType(a.type)
    IN  IF values /\ scalars THEN schema.args
        ELSE IF values THEN SelectSeq(schema.args, IsV)
        ELSE IF scalars THEN SelectSeq(schema.args, IsS)
        ELSE <<>>

\* The NativeFunction built from a choice of its parts.
MkOp(base, inplace, structured, delegate, nret, kinds) ==
    [ name |-> [base |-> base, inplace |-> inplace],
      args |-> [i \in 1..Len(kinds) |-> NamedCType(ArgNames[i], kinds[i].type)],
      wrapped_scalar_names |-> {ArgNames[i] : i \in {j \in 1..Len(kinds) : kinds[j].wrapped}},
      returns |-> [i \in 1..nret |-> "Tensor"],
      structured |-> structured,
      structured_delegate |-> delegate ]

IsStructured(func) == func.structured \/ func.structured_delegate # "None"

\* structured, structured_delegate: an out= kernel is structured, its
\* functional and in-place variants delegate to it; a structured kernel
\* returns its out arguments, so it declares at least one return.
StructKinds == { <<FALSE, "None">>, <<TRUE, "None">>, <<FALSE, "out">> }

ReturnCounts(sk) == IF sk[1] \/ sk[2] # "None" THEN 1..MaxReturns ELSE 0..MaxReturns

ArgLists(n) == UNION { [1..k -> ArgKinds] : k \in 0..n }

Ops(maxArgs) ==
    UNION { { MkOp(b, ip, sk[1], sk[2], n, ks) :
                b \in BaseNames, ip \in BOOLEAN,
                ks \in ArgLists(maxArgs), n \in ReturnCounts(sk) } :
            sk \in StructKinds }

(***************************************************************************)
(* Emitted text                                                            *)
(***************************************************************************)
AssertionError == <<"raise AssertionError">>
None == <<"None">>
\* A generator that has not been called has emitted nothing.
NotRun == [status |-> "not run", body |-> <<>>, decls |-> <<>>]

Stmt(kind, name, args, n) == [kind |-> kind, name |-> name, args |-> args, n |-> n]

RECURSIVE Flatten(_)
Flatten(ss) == IF ss = <<>> THEN <<>> ELSE Head(ss) \o Flatten(Tail(ss))

Range(s) == { s[i] : i \in DOMAIN s }

(***************************************************************************)
(* Expression builders                                                     *)
(***************************************************************************)
lazy_value_string_from_optionals(arg) ==
    IF isValueType(arg.type)
    THEN IF IsBaseCType(arg.type)
         THEN <<"lazy_" \o arg.name, ".GetIrValue()">>
         ELSE IF IsOptionalCType(arg.type)
         THEN <<"lazy_" \o arg.name, "?", "lazy_" \o arg.name, ".GetIrValue()",
                ":", "torch::lazy::Value()">>
         ELSE AssertionError
    ELSE None

node_ctor_arg_rvalue_string(arg, schema) ==
    IF isValueType(arg.type)
    THEN IF IsBaseCType(arg.type)
         THEN IF arg.name \in schema.wrapped_scalar_names
              THEN <<"GetIrValueForScalarFromCodegen(", arg.name, ")">>
              ELSE <<"lazy_" \o arg.name, ".GetIrValue()">>
         ELSE IF IsOptionalCType(arg.type)
         THEN IF arg.name \in schema.wrapped_scalar_names
              THEN <<arg.name, "?", "c10::make_optional(",
                     "GetIrValueForScalarFromCodegen(", "*" \o arg.name, ")", ")",
                     ":", "c10::nullopt">>
              ELSE <<"lazy_" \o arg.name, "?", "c10::make_optional(",
                     "lazy_" \o arg.name, ".GetIrValue()", ")", ":", "c10::nullopt">>
         ELSE AssertionError
    ELSE IF IsVectorCType(arg.type) /\ IsBaseCType(Elem(arg.type))
         THEN <<"std::vector<" \o arg.type.base \o ">(", arg.name, ".begin()",
                arg.name, ".end()", ")">>
         ELSE IF /\ IsOptionalCType(arg.type)
                 /\ IsVectorCType(Elem(arg.type))
                 /\ IsBaseCType(Elem(Elem(arg.type)))
         THEN <<"torch::lazy::ToOptionalVector<" \o arg.type.base \o ">(", arg.name, ")">>
         ELSE <<arg.name>>

\* Building a list raises when building one of its elements does.
Raises(exprs) == AssertionError \in Range(exprs)

node_ctor_inputs(schema) ==
    LET vals == [i \in DOMAIN schema.args |->
                    node_ctor_arg_rvalue_string(schema.args[i], schema)]
    IN  vals \o << <<"node_hash">>, <<"dag_hash">> >>

missing_interned_strings == {"sigmoid_backward"}

aten_symbol(schema) ==
    IF aten_name(schema) \in missing_interned_strings
    THEN <<"c10::Symbol::fromQualString(", "aten::" \o aten_name(schema), ")">>
    ELSE <<"at::aten::" \o aten_name(schema)>>

(***************************************************************************)
(* Shape Inference Emitter                                                 *)
(***************************************************************************)
Names(types) == [i \in DOMAIN types |-> <<types[i].name>>]

\* Lines 282-290, a mutant: the declaration is named after the operator,
\* not its base.
shape_decl_aten_name(f) ==
    Stmt("decl", "compute_shape_" \o aten_name(f), Names(f.args), 0)

\* ComputeShapeSignature(f).shape_decl
shape_decl(f) ==
    Stmt("decl", "compute_shape_" \o base_name(f), Names(f.args), 0)

\* ComputeShapeSignature(f).shape_call
shape_call(f) ==
    <<"torch_lazy_tensors::ir::ops::", "compute_shape_" \o base_name(f), "(">>
    \o Flatten(Names(f.args)) \o <<")">>

\* Shape(<result>.scalar_type(), <result>.sizes().vec())
ShapeOf(result) == <<"Shape(", result, ".scalar_type()", result, ".sizes().vec()", ")">>

this_shape(i) == ShapeOf("std::get<" \o ToString(i) \o ">(out_meta)")

\* Lines 80-85, a mutant: the tuple case is lost.
meta_out_single(nret) ==
    Stmt("Add", "cached_shapes", <<ShapeOf("out_meta")>>, 0)

\* Lines 80-85: the insertion of a structured operation's shapes.
meta_out(nret) ==
    IF nret > 1
    THEN Stmt("Add", "cached_shapes", [i \in 1..nret |-> this_shape(i - 1)], 0)
    ELSE Stmt("Add", "cached_shapes", <<ShapeOf("out_meta")>>, 0)

\* Lines 79-95, a mutant: the entry Add returns is not kept.
shapes_body_add_dropped(func, schema, nret, all_types) ==
    IF IsStructured(func)
    THEN << Stmt("meta", "at::meta::" \o aten_name(schema), Names(all_types), 0),
            [meta_out(nret) EXCEPT !.name = ""] >>
    ELSE << Stmt("Add", "", <<shape_call(func)>>, 0) >>

\* Lines 79-95: the cache-miss branch.
shapes_body(func, schema, nret, all_types) ==
    IF IsStructured(func)
    THEN << Stmt("meta", "at::meta::" \o aten_name(schema), Names(all_types), 0),
            meta_out(nret) >>
    ELSE << Stmt("Add", "cached_shapes", <<shape_call(func)>>, 0) >>

\* Lines 97-104, a mutant: the assertion is emitted inside the miss branch.
shapes_str_assert_on_miss(body, nret) ==
    << Stmt("GetShapeCache", "shape_cache", <<>>, 0),
       Stmt("Get", "cached_shapes", << <<"dag_hash">> >>, 0),
       Stmt("if nullptr", "cached_shapes", <<>>, Len(body) + 1) >>
    \o body \o
    << Stmt("TORCH_INTERNAL_ASSERT", "cached_shapes->size()", <<>>, nret),
       Stmt("deref", "shapes", << <<"cached_shapes">> >>, 0) >>

\* Lines 97-104: the lookup wrapped around the cache-miss branch.
shapes_str(body, nret) ==
    << Stmt("GetShapeCache", "shape_cache", <<>>, 0),
       Stmt("Get", "cached_shapes", << <<"dag_hash">> >>, 0),
       Stmt("if nullptr", "cached_shapes", <<>>, Len(body)) >>
    \o body \o
    << Stmt("deref", "shapes", << <<"cached_shapes">> >>, 0),
       Stmt("TORCH_INTERNAL_ASSERT", "shapes.size()", <<>>, nret) >>

cached_shape_inference(func, schema, nret, all_types) ==
    shapes_str(shapes_body(func, schema, nret, all_types), nret)

(***************************************************************************)
(* Dispatch Function Emitter                                               *)
(***************************************************************************)
RaiseStmt == Stmt("raise", "AssertionError", <<>>, 0)

lazy_tensor_decls(value_types, schema) ==
    LET decl(t) ==
            IF t.name \in schema.wrapped_scalar_names THEN <<>>
            ELSE IF IsBaseCType(t.type)
            THEN << Stmt("LazyTensor", "lazy_" \o t.name,
                         << <<"GetLtcTensorOrCreateForWrappedNumber(", t.name,
                              "*device", ")">> >>, 0) >>
            ELSE IF IsOptionalCType(t.type)
            THEN << Stmt("LazyTensor", "lazy_" \o t.name,
                         << <<"TryGetLtcTensor(", t.name, ".value_or(at::Tensor())",
                              ")">> >>, 0) >>
            ELSE <<RaiseStmt>>
    IN  Flatten([i \in DOMAIN value_types |-> decl(value_types[i])])

\* Lines 244-256, a mutant: the in-place bridge is never chosen.
bridge_str_never_inplace(schema, first_tensor, nret) ==
    LET device == "lazy_" \o first_tensor.name
        single == << Stmt("CreateAtenFromLtcTensor", "result",
                          << <<"LazyTensor::Create(", "std::move(node)", device,
                               ".GetDevice()", ")">> >>, 0) >>
        multi == << Stmt("std::vector", "lazy_tensors", <<>>, 0),
                    Stmt("for push_back", "lazy_tensors",
                         << <<"LazyTensor::Create(", "Value(node, i)", device,
                              ".GetDevice()", ")">> >>, nret),
                    Stmt("TupleAtenFromLtcTensors", "result",
                         << <<"lazy_tensors">> >>, nret) >>
        inplace == << Stmt("SetInPlaceIrValue", "lazy_" \o first_tensor.name,
                           << <<"node">> >>, 0),
                      Stmt("auto&", "result", << <<first_tensor.name>> >>, 0) >>
    IN  IF schema.name.inplace
        THEN IF nret = 1 THEN single ELSE <<RaiseStmt>>
        ELSE IF nret > 1 THEN multi ELSE single

\* Lines 244-256, a mutant: the loop stops one output short.
bridge_str_short_loop(schema, first_tensor, nret) ==
    LET device == "lazy_" \o first_tensor.name
        single == << Stmt("CreateAtenFromLtcTensor", "result",
                          << <<"LazyTensor::Create(", "std::move(node)", device,
                               ".GetDevice()", ")">> >>, 0) >>
        multi == << Stmt("std::vector", "lazy_tensors", <<>>, 0),
                    Stmt("for push_back", "lazy_tensors",
                         << <<"LazyTensor::Create(", "Value(node, i)", device,
                              ".GetDevice()", ")">> >>, nret - 1),
                    Stmt("TupleAtenFromLtcTensors", "result",
                         << <<"lazy_tensors">> >>, nret) >>
        inplace == << Stmt("SetInPlaceIrValue", "lazy_" \o first_tensor.name,
                           << <<"node">> >>, 0),
                      Stmt("auto&", "result", << <<first_tensor.name>> >>, 0) >>
    IN  IF schema.name.inplace
        THEN IF nret = 1 THEN inplace ELSE <<RaiseStmt>>
        ELSE IF nret > 1 THEN multi ELSE single

\* Lines 244-256: the bridge from the node back to the return type.
bridge_str(schema, first_tensor, nret) ==
    LET device == "lazy_" \o first_tensor.name
        single == << Stmt("CreateAtenFromLtcTensor", "result",
                          << <<"LazyTensor::Create(", "std::move(node)", device,
                               ".GetDevice()", ")">> >>, 0) >>
        multi == << Stmt("std::vector", "lazy_tensors", <<>>, 0),
                    Stmt("for push_back", "lazy_tensors",
                         << <<"LazyTensor::Create(", "Value(node, i)", device,
                              ".GetDevice()", ")">> >>, nret),
                    Stmt("TupleAtenFromLtcTensors", "result",
                         << <<"lazy_tensors">> >>, nret) >>
        inplace == << Stmt("SetInPlaceIrValue", "lazy_" \o first_tensor.name,
                           << <<"node">> >>, 0),
                      Stmt("auto&", "result", << <<first_tensor.name>> >>, 0) >>
    IN  IF schema.name.inplace
        THEN IF nret = 1 THEN inplace ELSE <<RaiseStmt>>
        ELSE IF nret > 1 THEN multi ELSE single

\* Line 234: the operands mixed into dag_hash.
ir_values(schema, value_types) ==
    LET NotWrapped(v) == v.name \notin schema.wrapped_scalar_names
        vs == SelectSeq(value_types, NotWrapped)
    IN  [i \in DOMAIN vs |-> lazy_value_string_from_optionals(vs[i])]

\* Line 231: the operator identity mixed into node_hash.
hash_identity(schema) ==
    <<"static_cast<uint32_t>(", "at::aten::" \o aten_name(schema), ")">>

GenLazyNativeFuncDefinition(func) ==
    LET schema == func
        all_types == filtered_types(schema, TRUE, TRUE)
        value_types == filtered_types(schema, TRUE, FALSE)
        scalar_types == filtered_types(schema, FALSE, TRUE)
        nret == returns_length(schema)
        decls == lazy_tensor_decls(value_types, schema)
        ctor == node_ctor_inputs(schema)
        hashes == <<hash_identity(schema)>> \o Names(scalar_types)
        irs == ir_values(schema, value_types)
        bridge == bridge_str(schema, value_types[1], nret)
        raised == \/ RaiseStmt \in Range(decls)
                  \/ Raises(ctor)
                  \/ Raises(irs)
                  \/ Len(value_types) = 0
                  \/ RaiseStmt \in Range(bridge)
    IN  IF raised THEN [status |-> "AssertionError", body |-> <<>>]
        ELSE [ status |-> "ok",
               decl |-> aten_name(schema),
               body |->
                 << Stmt("TORCH_LAZY_FN_COUNTER", "lazy::", <<>>, 0),
                    Stmt("GetBackendDevice", "device", Names(value_types), 0) >>
                 \o decls \o
                 << Stmt("MHash", "node_hash", hashes, 0),
                    Stmt("OperandHashes", "dag_hash", irs \o << <<"node_hash">> >>, 0) >>
                 \o cached_shape_inference(func, schema, nret, all_types) \o
                 << Stmt("MakeNode", node_name(schema),
                         ctor \o << <<"std::move(shapes)">> >>, 0) >>
                 \o bridge \o
                 << Stmt("return", "result", <<>>, 0) >> ]

GenLazyShapeInferenceDefinition(f) ==
    LET schema == f
        value_types == filtered_types(schema, TRUE, FALSE)
        decls == lazy_tensor_decls(value_types, schema)
        ctor == node_ctor_inputs(schema)
    IN  IF RaiseStmt \in Range(decls) \/ Raises(ctor)
        THEN [status |-> "AssertionError", decls |-> <<>>]
        ELSE IF ~f.structured /\ f.structured_delegate = "None"
        THEN [status |-> "ok", decls |-> <<shape_decl(f)>>]
        ELSE [status |-> "ok", decls |-> <<>>]

(***************************************************************************)
(* Node Class Emitter                                                      *)
(***************************************************************************)
\* f.functional.func of a NativeFunctionsGroup, f.func of a NativeFunction.
FuncOf(f, grouped) == IF grouped THEN [f EXCEPT !.name.inplace = FALSE] ELSE f

LazyIR_gen(f, grouped) ==
    LET func == FuncOf(f, grouped)
        schema == func
        value_types == filtered_types(schema, TRUE, FALSE)
        scalar_types == filtered_types(schema, FALSE, TRUE)
        base_arg(t) ==
            IF IsBaseCType(t.type) THEN <<t.name>>
            ELSE IF IsOptionalCType(t.type) THEN <<t.name, ".value_or(kNullValue)">>
            ELSE AssertionError
        base_ctor_value_args == [i \in DOMAIN value_types |-> base_arg(value_types[i])]
        IsOpt(t) == IsOptionalCType(t.type)
    IN  IF Raises(base_ctor_value_args)
        THEN [status |-> "AssertionError", aten_name |-> aten_name(schema)]
        ELSE [ status |-> "ok",
               aten_name |-> aten_name(schema),
               name |-> node_name(schema),
               ctor_args |-> Names(filtered_types(schema, TRUE, TRUE))
                               \o << <<"node_hash">>, <<"dag_hash">> >>,
               OpKind |-> aten_symbol(schema),
               base_ctor_value_args |-> base_ctor_value_args,
               num_outputs |-> Len(func.returns),
               scalar_initializers |-> Names(scalar_types),
               has_optional |-> Names(SelectSeq(value_types, IsOpt)),
               members_to_string |-> Names(scalar_types) ]

(***************************************************************************)
(* The generator as a state machine                                        *)
(***************************************************************************)
Null == <<"nullptr">>
NotBuilt == [arg |-> NamedCType("", CType(<<>>, "")), value |-> <<>>, ctor |-> <<>>]
NotStarted ==
    [ pc |-> 0, trace |-> <<>>, cached_shapes |-> Null, out_meta |-> 0,
      shapes |-> <<>>, node |-> Null, lazy_tensors |-> <<>>, i |-> 0,
      inplace_on |-> "", result |-> <<>> ]

RuntimeIdle ==
    /\ shape_cache = Null
    /\ procs = [p \in 1..NumProcs |-> NotStarted]
    /\ adds = 0

Init ==
    /\ op \in Ops(MaxArgs)
    /\ nodeClass = NotRun
    /\ dispatch = NotRun
    /\ shapeDecl = NotRun
    /\ built = NotBuilt
    /\ RuntimeIdle

GenLazyIR ==
    /\ nodeClass.status = "not run"
    /\ \E grouped \in BOOLEAN : nodeClass' = LazyIR_gen(op, grouped)
    /\ UNCHANGED <<op, dispatch, shapeDecl, built, shape_cache, procs, adds>>

GenLazyNativeFunc ==
    /\ dispatch.status = "not run"
    /\ dispatch' = GenLazyNativeFuncDefinition(op)
    /\ UNCHANGED <<op, nodeClass, shapeDecl, built, shape_cache, procs, adds>>

GenLazyShapeInference ==
    /\ shapeDecl.status = "not run"
    /\ shapeDecl' = GenLazyShapeInferenceDefinition(op)
    /\ UNCHANGED <<op, nodeClass, dispatch, built, shape_cache, procs, adds>>

Next == GenLazyIR \/ GenLazyNativeFunc \/ GenLazyShapeInference

Spec == Init /\ [][Next]_vars

(***************************************************************************)
(* Running the emitted dispatch function                                   *)
(*                                                                         *)
(* Each execution interprets dispatch.body.  Statements that touch neither *)
(* the shape cache nor the values the claims are about are passed over.    *)
(***************************************************************************)
Procs == 1..NumProcs

Generated == dispatch.status = "ok"

LocalKinds ==
    {"TORCH_LAZY_FN_COUNTER", "GetBackendDevice", "LazyTensor", "MHash",
     "OperandHashes", "GetShapeCache", "std::vector"}

Done == Len(dispatch.body) + 1
Aborted == Len(dispatch.body) + 2

RECURSIVE Skip(_, _)
Skip(body, i) ==
    IF i > Len(body) THEN i
    ELSE IF body[i].kind \in LocalKinds THEN Skip(body, i + 1)
    ELSE i

At(p, kind) ==
    /\ Generated
    /\ procs[p].pc \in DOMAIN dispatch.body
    /\ dispatch.body[procs[p].pc].kind = kind

Cur(p) == dispatch.body[procs[p].pc]

\* The process after its current statement, with the fields of upd changed.
Step(p, event, upd) ==
    [f \in DOMAIN procs[p] |->
        IF f = "pc" THEN Skip(dispatch.body, procs[p].pc + 1)
        ELSE IF f = "trace" THEN Append(procs[p].trace, event)
        ELSE IF f \in DOMAIN upd THEN upd[f]
        ELSE procs[p][f]]

Jump(p, event, target) == [Step(p, event, <<>>) EXCEPT !.pc = target]

\* at::meta::<op>(...) yields a Tensor for one declared return and a tuple
\* of that arity for more.
MetaArity(f) == Len(f.returns)

\* Shape(<result>.scalar_type(), <result>.sizes().vec()): the descriptor of
\* result i (0-based) of out_meta; Bad where the expression is ill-formed.
Bad == "ill-formed"

\* The descriptor of result i.
Descriptor(i) == "shape of result " \o ToString(i)

EvalShape(e, arity) ==
    IF e[2] = "out_meta" THEN IF arity = 1 THEN Descriptor(0) ELSE Bad
    ELSE IF arity > 1 /\ \E i \in 0..(arity - 1) : e = this_shape(i)
    THEN Descriptor(CHOOSE i \in 0..(arity - 1) : e = this_shape(i))
    ELSE Bad

\* compute_shape_<base_name>(...): one descriptor per declared return.
ComputeShape(f) == [i \in 1..Len(f.returns) |-> Descriptor(i - 1)]

\* The vector an Add statement builds from its argument.
AddedShapes(st, p) ==
    IF st.args[1][1] = "torch_lazy_tensors::ir::ops::" THEN ComputeShape(op)
    ELSE [i \in DOMAIN st.args |-> EvalShape(st.args[i], procs[p].out_meta)]

InitRun ==
    /\ op \in { f \in Ops(1) :
                  /\ Len(f.args) = 1
                  /\ f.args[1].type = CType(<<"BaseCType">>, valueT)
                  /\ f.wrapped_scalar_names = {}
                  /\ f.name.base = "add" }
    /\ nodeClass = NotRun
    /\ dispatch = NotRun
    /\ shapeDecl = NotRun
    /\ built = NotBuilt
    /\ RuntimeIdle

Call(p) ==
    /\ Generated
    /\ procs[p].pc = 0
    /\ procs' = [procs EXCEPT ![p] = [@ EXCEPT !.pc = Skip(dispatch.body, 1)]]
    /\ UNCHANGED <<op, nodeClass, dispatch, shapeDecl, built, shape_cache, adds>>

\* auto cached_shapes = shape_cache->Get(dag_hash);
CacheGet(p) ==
    /\ At(p, "Get")
    /\ procs' = [procs EXCEPT ![p] =
                    Step(p, IF shape_cache = Null THEN "Get:miss" ELSE "Get:hit",
                         [cached_shapes |-> shape_cache])]
    /\ UNCHANGED <<op, nodeClass, dispatch, shapeDecl, built, shape_cache, adds>>

\* if (cached_shapes == nullptr) { ... }
IfNull(p) ==
    /\ At(p, "if nullptr")
    /\ procs' = [procs EXCEPT ![p] =
                    IF procs[p].cached_shapes = Null
                    THEN Step(p, "if:then", <<>>)
                    ELSE Jump(p, "if:skip",
                              Skip(dispatch.body, procs[p].pc + Cur(p).n + 1))]
    /\ UNCHANGED <<op, nodeClass, dispatch, shapeDecl, built, shape_cache, adds>>

\* auto out_meta = at::meta::<op>(...);
MetaCall(p) ==
    /\ At(p, "meta")
    /\ procs' = [procs EXCEPT ![p] = Step(p, "meta", [out_meta |-> MetaArity(op)])]
    /\ UNCHANGED <<op, nodeClass, dispatch, shapeDecl, built, shape_cache, adds>>

\* cached_shapes = shape_cache->Add(dag_hash, <shapes>);  Add is atomic; it
\* returns the entry the cache holds afterwards, which for a key already
\* present is either the old entry or the new one.
CacheAdd(p) ==
    /\ At(p, "Add")
    /\ \E replace \in BOOLEAN :
          LET new == AddedShapes(Cur(p), p)
              held == IF shape_cache = Null \/ replace THEN new ELSE shape_cache
          IN  /\ shape_cache' = held
              /\ procs' = [procs EXCEPT ![p] =
                              IF Cur(p).name = "cached_shapes"
                              THEN Step(p, "Add", [cached_shapes |-> held])
                              ELSE Step(p, "Add", <<>>)]
    /\ adds' = adds + 1
    /\ UNCHANGED <<op, nodeClass, dispatch, shapeDecl, built>>

\* auto& shapes = *cached_shapes;  a null pointer here has no defined
\* behaviour: the execution is lost.
Deref(p) ==
    /\ At(p, "deref")
    /\ procs' = [procs EXCEPT ![p] =
                    IF procs[p].cached_shapes = Null
                    THEN Jump(p, "deref nullptr", Aborted)
                    ELSE Step(p, "deref", [shapes |-> procs[p].cached_shapes])]
    /\ UNCHANGED <<op, nodeClass, dispatch, shapeDecl, built, shape_cache, adds>>

\* TORCH_INTERNAL_ASSERT(shapes.size() == <returns_length>);
InternalAssert(p) ==
    /\ At(p, "TORCH_INTERNAL_ASSERT")
    /\ procs' = [procs EXCEPT ![p] =
                    IF Len(procs[p].shapes) = Cur(p).n
                    THEN Step(p, "assert", <<>>)
                    ELSE Jump(p, "assert failed", Aborted)]
    /\ UNCHANGED <<op, nodeClass, dispatch, shapeDecl, built, shape_cache, adds>>

\* auto node = torch::lazy::MakeNode<...>(..., std::move(shapes));
MakeNode(p) ==
    /\ At(p, "MakeNode")
    /\ procs' = [procs EXCEPT ![p] = Step(p, "MakeNode", [node |-> procs[p].shapes])]
    /\ UNCHANGED <<op, nodeClass, dispatch, shapeDecl, built, shape_cache, adds>>

\* auto result = CreateAtenFromLtcTensor(LazyTensor::Create(std::move(node), ...));
CreateAten(p) ==
    /\ At(p, "CreateAtenFromLtcTensor")
    /\ procs' = [procs EXCEPT ![p] =
                    Step(p, "Create", [result |-> <<"tensor", "node">>])]
    /\ UNCHANGED <<op, nodeClass, dispatch, shapeDecl, built, shape_cache, adds>>

\* for (int i = 0; i < n; i++) lazy_tensors.push_back(Create(Value(node, i), ...));
PushBack(p) ==
    /\ At(p, "for push_back")
    /\ procs' = [procs EXCEPT ![p] =
                    IF procs[p].i < Cur(p).n
                    THEN [@ EXCEPT !.lazy_tensors =
                                       Append(@, "Value(node, " \o ToString(procs[p].i) \o ")"),
                                   !.i = @ + 1,
                                   !.trace = Append(@, "Create")]
                    ELSE Step(p, "for:end", <<>>)]
    /\ UNCHANGED <<op, nodeClass, dispatch, shapeDecl, built, shape_cache, adds>>

\* auto result = TupleAtenFromLtcTensors<n>(lazy_tensors);
TupleAten(p) ==
    /\ At(p, "TupleAtenFromLtcTensors")
    /\ procs' = [procs EXCEPT ![p] =
                    IF Len(procs[p].lazy_tensors) < Cur(p).n
                    THEN Jump(p, "out of range", Aborted)
                    ELSE Step(p, "Tuple",
                              [result |-> <<"tuple">>
                                  \o SubSeq(procs[p].lazy_tensors, 1, Cur(p).n)])]
    /\ UNCHANGED <<op, nodeClass, dispatch, shapeDecl, built, shape_cache, adds>>

\* lazy_<first>.SetInPlaceIrValue(node);
SetInPlaceIrValue(p) ==
    /\ At(p, "SetInPlaceIrValue")
    /\ procs' = [procs EXCEPT ![p] =
                    Step(p, "SetInPlaceIrValue", [inplace_on |-> Cur(p).name])]
    /\ UNCHANGED <<op, nodeClass, dispatch, shapeDecl, built, shape_cache, adds>>

\* auto& result = <first>;
BindResult(p) ==
    /\ At(p, "auto&")
    /\ procs' = [procs EXCEPT ![p] =
                    Step(p, "auto&", [result |-> <<"ref">> \o Cur(p).args[1]])]
    /\ UNCHANGED <<op, nodeClass, dispatch, shapeDecl, built, shape_cache, adds>>

\* return result;
Return(p) ==
    /\ At(p, "return")
    /\ procs' = [procs EXCEPT ![p] = Jump(p, "return", Done)]
    /\ UNCHANGED <<op, nodeClass, dispatch, shapeDecl, built, shape_cache, adds>>

NextRun ==
    \/ GenLazyNativeFunc
    \/ \E p \in Procs :
          \/ Call(p)
          \/ CacheGet(p)
          \/ IfNull(p)
          \/ MetaCall(p)
          \/ CacheAdd(p)
          \/ Deref(p)
          \/ InternalAssert(p)
          \/ MakeNode(p)
          \/ CreateAten(p)
          \/ PushBack(p)
          \/ TupleAten(p)
          \/ SetInPlaceIrValue(p)
          \/ BindResult(p)
          \/ Return(p)

SpecRun == InitRun /\ [][NextRun]_vars

(***************************************************************************)
(* The expression builders on their own                                    *)
(***************************************************************************)
\* Every type the builders' isinstance tests tell apart, with either leaf.
AnyTypes ==
    { CType(c, b) :
        c \in { <<"BaseCType">>,
                <<"OptionalCType", "BaseCType">>,
                <<"VectorCType", "BaseCType">>,
                <<"OptionalCType", "VectorCType", "BaseCType">>,
                <<"VectorCType", "OptionalCType", "BaseCType">> },
        b \in {valueT, scalarT} }

InitBuild ==
    /\ op \in { f \in Ops(1) :
                  /\ f.name = [base |-> "add", inplace |-> FALSE]
                  /\ ~IsStructured(f)
                  /\ Len(f.returns) = 1 }
    /\ nodeClass = NotRun
    /\ dispatch = NotRun
    /\ shapeDecl = NotRun
    /\ built = NotBuilt
    /\ RuntimeIdle

BuildExpr ==
    /\ \E name \in {ArgNames[1], ArgNames[2]}, type \in AnyTypes :
          LET arg == NamedCType(name, type)
          IN  built' = [ arg |-> arg,
                         value |-> lazy_value_string_from_optionals(arg),
                         ctor |-> node_ctor_arg_rvalue_string(arg, op) ]
    /\ UNCHANGED <<op, nodeClass, dispatch, shapeDecl, shape_cache, procs, adds>>

NextBuild == BuildExpr

SpecBuild == InitBuild /\ [][NextBuild]_vars

(***************************************************************************)
(* Reading the emitted text                                                *)
(***************************************************************************)
StmtsOfKind(body, kind) == SelectSeq(body, LAMBDA st : st.kind = kind)

\* Every token of a statement: its name and the tokens of its expressions.
Tokens(st) == {st.name} \cup UNION { Range(e) : e \in Range(st.args) }

\* The hand-written shape functions a body calls.
ShapeCalls(body) ==
    { st.args[1][2] : st \in { t \in Range(body) :
          /\ t.kind = "Add"
          /\ t.args[1][1] = "torch_lazy_tensors::ir::ops::" } }

\* A value-type argument the builders have no branch for.
UnsupportedValueArg(f) ==
    \E a \in Range(f.args) :
        isValueType(a.type) /\ ~IsBaseCType(a.type) /\ ~IsOptionalCType(a.type)

ValueTypes == filtered_types(op, TRUE, FALSE)
ScalarTypes == filtered_types(op, FALSE, TRUE)

(***************************************************************************)
(* C1                                                                      *)
(***************************************************************************)
ShapeDeclRouting(emitted) ==
    /\ IsStructured(op) => shapeDecl.decls = <<>>
    /\ (~IsStructured(op) /\ emitted) =>
          /\ Len(shapeDecl.decls) = 1
          /\ shapeDecl.decls[1].name = "compute_shape_" \o op.name.base
          /\ Generated => ShapeCalls(dispatch.body) = {shapeDecl.decls[1].name}

\* C1 as stated: for every operation, GenLazyShapeInferenceDefinition emits
\* no compute_shape forward declaration when the operation is structured or
\* has a structured delegate and exactly one when it is neither, named
\* compute_shape_<base_name>, the name the dispatch function's cache-miss
\* branch calls.
C1_AsClaimed ==
    shapeDecl.status # "not run" => ShapeDeclRouting(TRUE)

\* C1 amended: the same routing for every operation whose value-type
\* arguments are all plain or optional; for an operation with any other
\* value-type argument the generator raises and emits no declaration.
C1_ShapeDeclRouting ==
    shapeDecl.status # "not run" =>
        /\ shapeDecl.status = "AssertionError" <=> UnsupportedValueArg(op)
        /\ shapeDecl.status = "AssertionError" => shapeDecl.decls = <<>>
        /\ ShapeDeclRouting(~UnsupportedValueArg(op))

C1_Witness ==
    /\ shapeDecl.status = "ok"
    /\ Len(shapeDecl.decls) = 1
    /\ op.name.inplace
    /\ Generated

(***************************************************************************)
(* C2                                                                      *)
(***************************************************************************)
MakeTensorTokens ==
    {"LazyTensor::Create(", "CreateAtenFromLtcTensor", "TupleAtenFromLtcTensors"}

\* C2: the bridge of every emitted in-place dispatch function holds no
\* LazyTensor::Create / CreateAtenFromLtcTensor / TupleAtenFromLtcTensors
\* call; it calls SetInPlaceIrValue(node) on the first value-type
\* argument's handle and binds result by reference to that argument.
C2_InPlaceBridge ==
    (Generated /\ op.name.inplace) =>
        LET body == dispatch.body
            first == ValueTypes[1]
        IN  /\ \A i \in DOMAIN body :
                  /\ body[i].kind \notin MakeTensorTokens
                  /\ Tokens(body[i]) \cap MakeTensorTokens = {}
            /\ \E i \in DOMAIN body :
                  /\ body[i] = Stmt("SetInPlaceIrValue", "lazy_" \o first.name,
                                    << <<"node">> >>, 0)
                  /\ body[i + 1] = Stmt("auto&", "result", << <<first.name>> >>, 0)
                  /\ body[i + 2] = Stmt("return", "result", <<>>, 0)
                  /\ i + 2 = Len(body)

C2_Witness ==
    /\ Generated
    /\ op.name.inplace
    /\ Len(ValueTypes) = 2

(***************************************************************************)
(* C4                                                                      *)
(***************************************************************************)
\* C4: in every emitted dispatch function node_hash mixes the operator
\* identity followed by every scalar-type argument in declaration order,
\* and dag_hash mixes node_hash with the bridge-value form of every
\* value-type argument in declaration order, so every value-type argument
\* passed to the node constructor also appears as an input of dag_hash.
C4_AsClaimed ==
    Generated =>
        LET nh == StmtsOfKind(dispatch.body, "MHash")
            dh == StmtsOfKind(dispatch.body, "OperandHashes")
        IN  /\ Len(nh) = 1 /\ Len(dh) = 1
            /\ nh[1].args = <<hash_identity(op)>> \o Names(ScalarTypes)
            /\ dh[1].args =
                  [i \in DOMAIN ValueTypes |->
                      lazy_value_string_from_optionals(ValueTypes[i])]
                  \o << <<"node_hash">> >>
            /\ \A v \in Range(ValueTypes) :
                  Tokens(dh[1]) \cap {v.name, "lazy_" \o v.name} # {}

(***************************************************************************)
(* C9                                                                      *)
(***************************************************************************)
Handles == { "lazy_" \o ArgNames[i] : i \in DOMAIN ArgNames }

\* The handle variables a statement reads.
HandlesUsed(st) ==
    IF st.kind = "LazyTensor"
    THEN Handles \cap UNION { Range(e) : e \in Range(st.args) }
    ELSE Handles \cap Tokens(st)

\* C9: every handle variable lazy_<name> the emitted body references is
\* declared earlier in the same body by lazy_tensor_decls, also when the
\* first value-type argument is a promoted scalar.
C9_AsClaimed ==
    Generated =>
        \A j \in DOMAIN dispatch.body :
            \A h \in HandlesUsed(dispatch.body[j]) :
                \E i \in 1..(j - 1) :
                    /\ dispatch.body[i].kind = "LazyTensor"
                    /\ dispatch.body[i].name = h

(***************************************************************************)
(* C10                                                                     *)
(***************************************************************************)
\* C10: for every operator name the operator identity mixed into node_hash
\* is the expression the node class passes to its base class as OpKind;
\* for a name without an interned symbol neither references
\* at::aten::<name>.
C10_AsClaimed ==
    (Generated /\ nodeClass.status = "ok" /\ nodeClass.aten_name = aten_name(op)) =>
        LET id == StmtsOfKind(dispatch.body, "MHash")[1].args[1]
            symbol == SubSeq(id, 2, Len(id) - 1)
        IN  /\ symbol = nodeClass.OpKind
            /\ aten_name(op) \in missing_interned_strings =>
                  "at::aten::" \o aten_name(op) \notin Range(id) \cup Range(nodeClass.OpKind)

(***************************************************************************)
(* C3                                                                      *)
(***************************************************************************)
Finished(p) == Generated /\ procs[p].pc = Done

Count(seq, x) == Len(SelectSeq(seq, LAMBDA e : e = x))

OutputHandles(n) == [i \in 1..n |-> "Value(node, " \o ToString(i - 1) \o ")"]

\* C3: for an operation with n > 1 returns that is not in-place, the
\* emitted loop, once run, has created exactly n handles, for outputs
\* 0..n-1 of the one node in increasing order, and the execution returns
\* them packed into a tuple of arity n; for an in-place operation with
\* n > 1 generation raises and emits nothing.
C3_MultiReturnBridge ==
    LET n == Len(op.returns)
    IN  /\ \A p \in Procs :
              (Generated /\ n > 1 /\ ~op.name.inplace) =>
                  /\ procs[p].pc # Aborted
                  /\ "for:end" \in Range(procs[p].trace) =>
                        /\ procs[p].lazy_tensors = OutputHandles(n)
                        /\ Count(procs[p].trace, "Create") = n
                        /\ Count(procs[p].trace, "MakeNode") = 1
                  /\ Finished(p) =>
                        procs[p].result = <<"tuple">> \o OutputHandles(n)
        /\ (dispatch.status # "not run" /\ op.name.inplace /\ n > 1) =>
              /\ dispatch.status = "AssertionError"
              /\ dispatch.body = <<>>

C3_Witness ==
    \E p \in Procs : Finished(p) /\ Len(op.returns) > 1 /\ ~op.name.inplace

(***************************************************************************)
(* C5                                                                      *)
(***************************************************************************)
HitPath == <<"Get:hit", "if:skip", "deref", "assert", "MakeNode">>

MissPath ==
    IF IsStructured(op)
    THEN <<"Get:miss", "if:then", "meta", "Add", "deref", "assert", "MakeNode">>
    ELSE <<"Get:miss", "if:then", "Add", "deref", "assert", "MakeNode">>

Follows(trace, path) ==
    \A i \in 1..Len(path) : i <= Len(trace) => trace[i] = path[i]

\* C5: every execution first looks dag_hash up; only on a miss does it
\* compute the shapes and insert them; on a hit it computes and inserts
\* nothing; on both paths it then asserts that the shape list has as many
\* entries as the operation declares returns, before the node is made.
C5_ShapeResolutionOrder ==
    /\ \A p \in Procs :
          Follows(procs[p].trace, HitPath) \/ Follows(procs[p].trace, MissPath)
    /\ Generated =>
          \A st \in Range(dispatch.body) :
              st.kind = "TORCH_INTERNAL_ASSERT" => st.n = Len(op.returns)

C5_Witness ==
    \E p, q \in Procs :
        /\ Len(procs[p].trace) >= Len(HitPath)
        /\ Follows(procs[p].trace, HitPath)
        /\ Len(procs[q].trace) >= Len(MissPath)
        /\ Follows(procs[q].trace, MissPath)

(***************************************************************************)
(* C6                                                                      *)
(***************************************************************************)
ExpectedShapes == [i \in 1..Len(op.returns) |-> Descriptor(i - 1)]

PlainOrOptional(t) ==
    t.ctors \in { <<"BaseCType">>, <<"OptionalCType", "BaseCType">> }

\* The shapes the bridge-value form is specified for.
ValueShapes == { t \in AnyTypes : t.base = valueT /\ PlainOrOptional(t) }

\* The shapes the constructor-argument form is specified for.
CtorShapes ==
    ValueShapes \cup
    { t \in AnyTypes :
        /\ t.base = scalarT
        /\ \/ PlainOrOptional(t)
           \/ t.ctors \in { <<"VectorCType", "BaseCType">>,
                            <<"OptionalCType", "VectorCType", "BaseCType">> } }

\* C7: each builder returns an expression of the branch matching the
\* argument's type or raises; for a type outside the supported shapes it
\* raises, and never yields a default expression or no result.
C7_AsClaimed ==
    built # NotBuilt =>
        /\ built.value # None
        /\ built.ctor # None
        /\ built.arg.type \notin ValueShapes => built.value = AssertionError
        /\ built.arg.type \notin CtorShapes => built.ctor = AssertionError

(***************************************************************************)
(* C8                                                                      *)
(***************************************************************************)
\* C8: however the executions for one dag_hash interleave, each one that
\* passes the assertion goes on with the shape list a sequential run
\* yields, of the declared length, none is lost, and the cache holds no
\* entry of another length; only the number of insertions may exceed one.
C8_InterleavedCache ==
    /\ shape_cache # Null => Len(shape_cache) = Len(op.returns)
    /\ adds <= NumProcs
    /\ \A p \in Procs :
          /\ procs[p].pc # Aborted
          /\ "assert" \in Range(procs[p].trace) =>
                /\ Len(procs[p].shapes) = Len(op.returns)
                /\ procs[p].shapes = ExpectedShapes
          /\ "MakeNode" \in Range(procs[p].trace) => procs[p].node = ExpectedShapes

C8_Witness ==
    /\ adds >= 2
    /\ \A p \in Procs : Finished(p)

====
